---- MODULE Spec2Model ----
(***************************************************************************)
(* Model of src/main.py: a Streamlit page that finds a spreadsheet, loads  *)
(* and normalises it (load_and_preprocess_data, memoised by st.cache_data),*)
(* computes the correlation matrix and shows the strongest positive and    *)
(* negative pair on request (get_extreme_correlations).                    *)
(*                                                                         *)
(* Numbers are exact.  A table value n is stored as the integer 4 * n, so  *)
(* that a median of integers (a multiple of 1/2) and a median of such      *)
(* medians (a multiple of 1/4) are integers of the model.  A correlation   *)
(* coefficient r is stored as the fraction num / den = r * |r|, which      *)
(* orders and signs exactly as r does.                                     *)
(*                                                                         *)
(* pandas is modelled as of the 2.x releases: fillna(inplace=True) on a    *)
(* column taken from a frame updates the frame (lines 48 and 67).          *)
(***************************************************************************)
EXTENDS Integers, Sequences, FiniteSets, TLC

\* ------------------------------------------------------------------ bounds
MaxRows == 2
MaxSessionRows == 2
MaxGenderRows == 3
MaxReads == 2
MaxVars == 3

\* ------------------------------------------------------- cells and values
\* One spreadsheet cell or one pandas value: a number (v, in quarters), a
\* text (s) or a missing entry (NaN).
Num(n) == [k |-> "num", v |-> 4 * n, s |-> ""]
Quarter(q) == [k |-> "num", v |-> q, s |-> ""]
Str(t) == [k |-> "str", v |-> 0, s |-> t]
NaN == [k |-> "nan", v |-> 0, s |-> ""]

IsNa(c) == c.k = "nan"

\* Texts that float() accepts, with their value.
NumericText == [t \in {"2"} |-> 2]

\* pd.to_numeric(errors='coerce') on one entry.
ToNumeric(c) ==
    CASE c.k = "num" -> c
      [] c.k = "nan" -> NaN
      [] OTHER -> IF c.s \in DOMAIN NumericText THEN Num(NumericText[c.s]) ELSE NaN

\* Series.astype(str) on one entry of an object column.
NumberText == [q \in {0, 4, 8} |-> IF q = 0 THEN "0" ELSE IF q = 4 THEN "1" ELSE "2"]
AsStr(c) ==
    CASE c.k = "str" -> c.s
      [] c.k = "nan" -> "nan"
      [] OTHER -> IF c.v \in DOMAIN NumberText THEN NumberText[c.v] ELSE "number"

\* str.lower() on the texts of the model.
LowerTable == [t \in {"Female", "FEMALE", "Male", "MALE"} |->
                 IF t \in {"Female", "FEMALE"} THEN "female" ELSE "male"]
Lower(t) == IF t \in DOMAIN LowerTable THEN LowerTable[t] ELSE t

\* Series.map({'female': 1, 'male': 0}): a key that is absent maps to NaN.
\* (variant: every value but 'female' mapped to 0)
MapSexOthersZero(t) == IF t = "female" THEN Num(1) ELSE Num(0)
MapSex(t) ==
    CASE t = "female" -> Num(1)
      [] t = "male" -> Num(0)
      [] OTHER -> NaN

\* ----------------------------------------------------------------- median
Present(col) == SelectSeq(col, LAMBDA c : ~IsNa(c))

Sorted(col) == SortSeq(col, LAMBDA a, b : a.v < b.v)

\* Series.median(): NaN entries are skipped; NaN when nothing is left.
Median(col) ==
    LET xs == Sorted(Present(col))
        n == Len(xs)
    IN  IF n = 0 THEN NaN
        ELSE IF n % 2 = 1 THEN xs[(n + 1) \div 2]
        ELSE Quarter((xs[n \div 2].v + xs[n \div 2 + 1].v) \div 2)

\* Series.fillna(value): a NaN value fills nothing.
\* (variant: the fill is lost, as on a copy of the column)
FillnaNothing(col, value) == col
Fillna(col, value) ==
    [i \in 1..Len(col) |-> IF IsNa(col[i]) /\ ~IsNa(value) THEN value ELSE col[i]]

\* ------------------------------------------------------------ source file
STANDARD_COLS == <<"pclass", "age", "sibsp", "parch", "fare">>

\* Headers a source sheet of the model may carry, as written in the sheet.
SourceHeaders == {"Pclass", "Age", "Sex"}

\* df.columns.str.lower().str.replace(' ', '').
NormalizeName == [h \in SourceHeaders |->
                    CASE h = "Pclass" -> "pclass"
                      [] h = "Age" -> "age"
                      [] OTHER -> "sex"]

\* 'sex' in col or 'gender' in col, on the normalised names of the model.
HasSexToken(col) == col \in {"sex", "gender", "passengersex", "sex_numeric"}

AbsentColumn == [present |-> FALSE, cells |-> <<>>]

NoColumns == [h \in SourceHeaders |-> AbsentColumn]

\* What a path holds: nothing, something read_excel cannot parse, or a sheet.
AbsentFile == [kind |-> "absent", nrows |-> 0, cols |-> NoColumns]
CorruptFile == [kind |-> "corrupt", nrows |-> 0, cols |-> NoColumns]

\* Cells of the sheets the loader is called on: a number, a text that
\* parses as a number, a text that does not, a missing entry.
PclassCells == {Num(1), Str("2"), Str("x"), NaN}
AgeCells == {Num(1), Str("x"), NaN}
SexCells == {Str("female"), Str("Male"), Str("x"), NaN}

\* Cells of the sheets of the runs about the gender column.
GenderCells == {Str("female"), Str("male"), Str("Female"), Str("x"), NaN}

SeqsOf(S, n) == [1..n -> S]

ColumnsOf(cells, n) ==
    {AbsentColumn} \cup {[present |-> TRUE, cells |-> c] : c \in SeqsOf(cells, n)}

\* A sheet of n rows with the given columns.
Sheet(n, pclass, age, sex) ==
    [kind |-> "table", nrows |-> n, cols |-> [Pclass |-> pclass, Age |-> age, Sex |-> sex]]

Headers(content) == {h \in SourceHeaders : content.cols[h].present}

\* ------------------------------------------------------------- data frame
AnalysisCols == {STANDARD_COLS[i] : i \in DOMAIN STANDARD_COLS} \cup {"sex_numeric"}

NoData == [c \in AnalysisCols |-> <<>>]

\* The value None, and a DataFrame: its column names in order, its number
\* of rows and the values of each column.
None == [kind |-> "none", columns |-> <<>>, nrows |-> 0, data |-> NoData]
Frame(columns, nrows, data) ==
    [kind |-> "frame", columns |-> columns, nrows |-> nrows, data |-> data]

InSeq(x, seq) == \E i \in DOMAIN seq : seq[i] = x

Remove(seq, x) == SelectSeq(seq, LAMBDA y : y # x)

\* DataFrame.empty: some axis has length zero.
\* (variant: the test of .empty left out)
IsEmptyNever(df) == FALSE
IsEmpty(df) == Len(df.columns) = 0 \/ df.nrows = 0

Msg(level, code, col) == [level |-> level, code |-> code, col |-> col]

\* ----------------------------------------------- load_and_preprocess_data
\* Names of df after the normalisation of line 37.
DfColumns(content) == {NormalizeName[h] : h \in Headers(content)}

DfColumn(content, col) ==
    content.cols[CHOOSE h \in Headers(content) : NormalizeName[h] = col].cells

\* Lines 40-44: the first column whose name has the token (a sheet of the
\* model has at most one such column).
SexColName(content) ==
    LET found == {c \in DfColumns(content) : HasSexToken(c)}
    IN  IF found = {} THEN "" ELSE CHOOSE c \in found : TRUE

\* Line 47.
SexMapped(col) == [i \in 1..Len(col) |-> MapSex(Lower(AsStr(col[i])))]

\* Lines 47-48: the column sex_numeric stored in df.
SexNumeric(col) == Fillna(SexMapped(col), Median(SexMapped(col)))

\* Lines 53-55.
NumericAnalysisCols(content) ==
    SelectSeq(STANDARD_COLS, LAMBDA c : c \in DfColumns(content))
      \o (IF SexColName(content) # "" THEN <<"sex_numeric">> ELSE <<>>)

\* Line 61: df[numeric_analysis_cols].copy().
ProcessedInit(content) ==
    LET cols == NumericAnalysisCols(content)
    IN  Frame(cols, content.nrows,
              [c \in AnalysisCols |->
                 IF ~InSeq(c, cols) THEN <<>>
                 ELSE IF c = "sex_numeric"
                      THEN SexNumeric(DfColumn(content, SexColName(content)))
                      ELSE DfColumn(content, c)])

\* Lines 64-70: the body of the loop for one column, on the pair
\* [df, msgs] of the frame and the messages shown so far.
\* (variant: a column without a median is kept)
LoopBodyKeepAll(st, col) ==
    LET numeric == [i \in 1..st.df.nrows |-> ToNumeric(st.df.data[col][i])]
    IN  [df |-> Frame(st.df.columns, st.df.nrows,
                      [st.df.data EXCEPT ![col] = Fillna(numeric, Median(numeric))]),
         msgs |-> st.msgs]
LoopBody(st, col) ==
    LET numeric == [i \in 1..st.df.nrows |-> ToNumeric(st.df.data[col][i])]
        median_val == Median(numeric)
    IN  IF ~IsNa(median_val)
        THEN [df |-> Frame(st.df.columns, st.df.nrows,
                           [st.df.data EXCEPT ![col] = Fillna(numeric, median_val)]),
              msgs |-> st.msgs]
        ELSE [df |-> Frame(Remove(st.df.columns, col), st.df.nrows,
                           [st.df.data EXCEPT ![col] = <<>>]),
              msgs |-> Append(st.msgs, Msg("warning", "all_non_numeric", col))]

\* Line 63: the loop runs over the column index taken before the first
\* iteration, so a drop inside the loop skips no column.
\* (variant: the loop runs over the live column list and skips the column
\* after a dropped one)
RECURSIVE ProcessColumnsSkipping(_, _, _)
ProcessColumnsSkipping(st, cols, i) ==
    IF i > Len(cols) THEN st
    ELSE LET next == LoopBody(st, cols[i])
         IN  ProcessColumnsSkipping(next, cols,
                                    IF InSeq(cols[i], next.df.columns) THEN i + 1 ELSE i + 2)
RECURSIVE ProcessColumns(_, _, _)
ProcessColumns(st, cols, i) ==
    IF i > Len(cols) THEN st
    ELSE ProcessColumns(LoopBody(st, cols[i]), cols, i + 1)

\* Line 28: the exception pd.read_excel raises for what the path holds
\* ("" when it returns the sheet).
ReadExcel(content) ==
    CASE content.kind = "absent" -> "FileNotFoundError"
      [] content.kind = "corrupt" -> "ValueError"
      [] OTHER -> ""

Returned(result, msgs) == [result |-> result, msgs |-> msgs, fault |-> FALSE]

\* An exception that leaves the function.
Uncaught == [result |-> None, msgs |-> <<>>, fault |-> TRUE]

\* Lines 36-72, on the sheet read.
Preprocess(content) ==
    LET sexMsgs == IF SexColName(content) = ""
                   THEN <<Msg("warning", "no_sex_column", "")>> ELSE <<>>
        cols == NumericAnalysisCols(content)
    IN  IF Len(cols) = 0
        THEN Returned(None, Append(sexMsgs, Msg("error", "no_numeric_columns", "")))
        ELSE LET st == ProcessColumns([df |-> ProcessedInit(content), msgs |-> sexMsgs],
                                      cols, 1)
             IN  Returned(st.df, st.msgs)

\* Lines 26-72: the returned value and the messages shown, for what the
\* path holds.
\* (variant: no except clause)
LoadAndPreprocessNoExcept(content) ==
    IF ReadExcel(content) # "" THEN Uncaught ELSE Preprocess(content)
LoadAndPreprocess(content) ==
    CASE ReadExcel(content) = "FileNotFoundError" ->
           Returned(None, <<Msg("error", "file_not_found", "")>>)
      [] ReadExcel(content) # "" ->
           Returned(None, <<Msg("error", "load_failed", "")>>)
      [] OTHER -> Preprocess(content)

\* ---------------------------------------------------- calculate_correlation
\* A coefficient r as the fraction num / den = r * |r| (den > 0), or NaN.
Coef(num, den) == [nan |-> FALSE, num |-> num, den |-> den]
CoefNaN == [nan |-> TRUE, num |-> 0, den |-> 1]

RECURSIVE SumProd(_, _, _)
SumProd(xs, ys, i) ==
    IF i > Len(xs) THEN 0 ELSE xs[i].v * ys[i].v + SumProd(xs, ys, i + 1)

RECURSIVE SumOf(_, _)
SumOf(xs, i) == IF i > Len(xs) THEN 0 ELSE xs[i].v + SumOf(xs, i + 1)

\* n * sum(x * y) - sum(x) * sum(y): the co-moment of two columns, times n.
CoMoment(xs, ys) == Len(xs) * SumProd(xs, ys, 1) - SumOf(xs, 1) * SumOf(ys, 1)

\* Pearson's coefficient of two columns without missing entries: NaN when
\* a column has no variance.
Pearson(xs, ys) ==
    LET sxy == CoMoment(xs, ys)
        den == CoMoment(xs, xs) * CoMoment(ys, ys)
    IN  IF den = 0 THEN CoefNaN
        ELSE Coef(IF sxy < 0 THEN -(sxy * sxy) ELSE sxy * sxy, den)

\* A correlation matrix: the names it is indexed by, in order, and its
\* entries (NaN outside the names).
Matrix(cols, val) == [cols |-> cols, val |-> val]
NoMatrix == Matrix(<<>>, [a \in AnalysisCols, b \in AnalysisCols |-> CoefNaN])

\* df.corr().
CalculateCorrelation(df) ==
    Matrix(df.columns,
           [a \in AnalysisCols, b \in AnalysisCols |->
              IF InSeq(a, df.columns) /\ InSeq(b, df.columns)
              THEN Pearson(df.data[a], df.data[b]) ELSE CoefNaN])

\* ------------------------------------------------ get_extreme_correlations
Positive(c) == ~c.nan /\ c.num > 0
Negative(c) == ~c.nan /\ c.num < 0
Less(c, d) == c.num * d.den < d.num * c.den

\* Line 84: corr_matrix.unstack(), column by column: entries [var1, var2,
\* value] with var1 the column label and var2 the row label.
Unstacked(m) ==
    LET n == Len(m.cols)
    IN  [i \in 1..(n * n) |->
           LET a == m.cols[((i - 1) \div n) + 1]
               b == m.cols[((i - 1) % n) + 1]
           IN  [var1 |-> a, var2 |-> b, value |-> m.val[b, a]]]

\* Line 86.
\* (variant: the diagonal is kept)
PairsWithDiagonal(m) == Unstacked(m)
Pairs(m) == SelectSeq(Unstacked(m), LAMBDA e : e.var1 # e.var2)

\* c comes before d in the order of nlargest (largest) or nsmallest.
Beats(c, d, largest) == IF largest THEN Less(d, c) ELSE Less(c, d)

\* nlargest(1) / nsmallest(1): the first entry, in order, that no entry beats.
FirstExtreme(es, largest) ==
    LET i == CHOOSE i \in DOMAIN es :
               /\ \A j \in DOMAIN es : ~Beats(es[j].value, es[i].value, largest)
               /\ \A j \in 1..(i - 1) : Beats(es[i].value, es[j].value, largest)
    IN  es[i]

NoneFound == [var1 |-> "", var2 |-> "", value |-> CoefNaN]

\* Lines 88-97.
\* (variant: no filter on the sign)
GetExtremeNoSignFilter(m, is_positive) ==
    LET es == SelectSeq(Pairs(m), LAMBDA e : ~e.value.nan)
    IN  IF Len(es) = 0 THEN NoneFound ELSE FirstExtreme(es, is_positive)
GetExtremeCorrelations(m, is_positive) ==
    LET es == IF is_positive
              THEN SelectSeq(Pairs(m), LAMBDA e : Positive(e.value))
              ELSE SelectSeq(Pairs(m), LAMBDA e : Negative(e.value))
    IN  IF Len(es) = 0 THEN NoneFound ELSE FirstExtreme(es, is_positive)

\* Lines 177 and 192: "if corr_value:" holds for a number other than zero.
Truthy(e) == e # NoneFound /\ (e.value.nan \/ e.value.num # 0)

\* ------------------------------------------------------------------ state
Paths == {"a.xlsx", "b.xlsx"}

VARIABLES
    fs,              \* what each path of the working directory holds
    cache,           \* st.cache_data's store for load_and_preprocess_data
    reads,           \* per path, the calls of pd.read_excel made so far
    pc,              \* position of the script run
    button,          \* the button whose click started this run
    data_file_name,  \* line 142
    df_numeric,      \* line 151
    corr_matrix,     \* line 161
    extreme,         \* the triple of line 175 or 190
    shown,           \* status messages shown in this run
    rendered         \* elements drawn in this run

vars == <<fs, cache, reads, pc, button, data_file_name, df_numeric, corr_matrix,
          extreme, shown, rendered>>

Uncached == [hit |-> FALSE, result |-> None, msgs |-> <<>>]

\* Cells of the sheets a session may start from.
SessionPclassCells == {Num(1), Str("2"), Str("x")}
SessionAgeCells == {Num(1), Str("x")}
SessionSexCells == {Str("female"), Str("male")}

\* The directory: a.xlsx is absent, unreadable or a sheet of at most maxRows
\* rows whose columns hold the given cells; b.xlsx is one of bs.
Directory(files, pclassCells, ageCells, sexCells, maxRows, bs) ==
    \E b \in bs :
       \/ \E a \in {AbsentFile, CorruptFile} :
            files = [p \in Paths |-> IF p = "a.xlsx" THEN a ELSE b]
       \/ \E n \in 0..maxRows :
            \E pclass \in ColumnsOf(pclassCells, n), age \in ColumnsOf(ageCells, n),
               sex \in ColumnsOf(sexCells, n) :
              files = [p \in Paths |->
                         IF p = "a.xlsx" THEN Sheet(n, pclass, age, sex) ELSE b]

\* A server that has just started, and the page opened for the first time.
Init ==
    /\ Directory(fs, SessionPclassCells, SessionAgeCells, SessionSexCells, MaxSessionRows,
                 {AbsentFile, CorruptFile})
    /\ cache = [p \in Paths |-> Uncached]
    /\ reads = [p \in Paths |-> 0]
    /\ button = "none"
    /\ pc = "start"
    /\ data_file_name = ""
    /\ df_numeric = None
    /\ corr_matrix = NoMatrix
    /\ extreme = NoneFound
    /\ shown = <<>>
    /\ rendered = {}

\* ---------------------------------------------------------- find_data_file
\* Lines 12-18: the first name of os.listdir('.') that ends in .xlsx; the
\* order of the listing is arbitrary.
XlsxFiles(files) == {p \in Paths : files[p].kind # "absent"}

\* Lines 142-148.
FindDataFile ==
    /\ pc = "start"
    /\ IF XlsxFiles(fs) = {}
       THEN /\ shown' = Append(shown, Msg("error", "no_xlsx_file", ""))
            /\ pc' = "stopped"
            /\ UNCHANGED data_file_name
       ELSE /\ \E p \in XlsxFiles(fs) : data_file_name' = p
            /\ shown' = Append(shown, Msg("info", "file_found", ""))
            /\ pc' = "found"
    /\ UNCHANGED <<fs, cache, reads, button, df_numeric, corr_matrix, extreme, rendered>>

\* ------------------------------------------------------------ st.cache_data
\* Line 20: a call with an argument seen before returns the stored value and
\* replays the stored messages; otherwise the function runs, and its value
\* and messages are stored unless it raised.  [entry, read, fault]: the
\* entry after the call, whether the function body ran, whether it raised.
Stored(r) == [hit |-> ~r.fault, result |-> r.result, msgs |-> r.msgs]

\* (variant: the function without its decorator)
CachedCallNoCache(entry, content) ==
    LET r == LoadAndPreprocess(content)
    IN  [entry |-> Stored(r), read |-> TRUE, fault |-> r.fault]
CachedCall(entry, content) ==
    IF entry.hit THEN [entry |-> entry, read |-> FALSE, fault |-> FALSE]
    ELSE LET r == LoadAndPreprocess(content)
         IN  [entry |-> Stored(r), read |-> TRUE, fault |-> r.fault]

\* Line 151.  An exception that leaves the function ends the run.  MaxReads
\* caps the counter of reads.
LoadData ==
    /\ pc = "found"
    /\ \E p \in {data_file_name} : \E c \in {CachedCall(cache[p], fs[p])} :
           /\ c.read => reads[p] < MaxReads
           /\ cache' = [cache EXCEPT ![p] = c.entry]
           /\ reads' = [reads EXCEPT ![p] = IF c.read THEN @ + 1 ELSE @]
           /\ df_numeric' = c.entry.result
           /\ shown' = shown \o c.entry.msgs
           /\ pc' = IF c.fault THEN "fault" ELSE "loaded"
    /\ UNCHANGED <<fs, button, data_file_name, corr_matrix, extreme, rendered>>

\* Lines 153-158.
CheckData ==
    /\ pc = "loaded"
    /\ IF df_numeric = None \/ IsEmpty(df_numeric)
       THEN /\ pc' = "stopped"
            /\ UNCHANGED rendered
       ELSE /\ pc' = "ok"
            /\ rendered' = rendered \cup {"preview"}
    /\ UNCHANGED <<fs, cache, reads, button, data_file_name, df_numeric, corr_matrix,
                   extreme, shown>>

\* Lines 161-164.
ShowHeatmap ==
    /\ pc = "ok"
    /\ corr_matrix' = CalculateCorrelation(df_numeric)
    /\ rendered' = rendered \cup {"heatmap"}
    /\ pc' = "heat"
    /\ UNCHANGED <<fs, cache, reads, button, data_file_name, df_numeric, extreme, shown>>

\* Lines 174-184 (is_positive) and 189-199: the body runs in the run that
\* the click of the button started.
ButtonBlock(name, is_positive, from, to) ==
    /\ pc = from
    /\ pc' = to
    /\ IF button = name
       THEN \E e \in {GetExtremeCorrelations(corr_matrix, is_positive)} :
                /\ extreme' = e
                /\ IF Truthy(e)
                   THEN /\ shown' = Append(shown, Msg("success", name, ""))
                        /\ rendered' = rendered \cup {"scatterplot"}
                   ELSE /\ shown' = Append(shown, Msg("info", "none_found", ""))
                        /\ UNCHANGED rendered
       ELSE UNCHANGED <<extreme, shown, rendered>>
    /\ UNCHANGED <<fs, cache, reads, button, data_file_name, df_numeric, corr_matrix>>

PositiveButton == ButtonBlock("positive", TRUE, "heat", "pos")

NegativeButton == ButtonBlock("negative", FALSE, "pos", "done")

\* The user reloads the page or clicks a button: the script runs again from
\* the top, in the same server process.
Rerun ==
    /\ pc \in {"done", "stopped", "fault"}
    /\ button' \in {"none", "positive", "negative"}
    /\ pc' = "start"
    /\ data_file_name' = ""
    /\ df_numeric' = None
    /\ corr_matrix' = NoMatrix
    /\ extreme' = NoneFound
    /\ shown' = <<>>
    /\ rendered' = {}
    /\ UNCHANGED <<fs, cache, reads>>

\* The environment deletes a file, before the directory is listed or
\* between the listing and the read.
RemoveFile ==
    /\ pc \in {"start", "found"}
    /\ \E p \in XlsxFiles(fs) : fs' = [fs EXCEPT ![p] = AbsentFile]
    /\ UNCHANGED <<cache, reads, pc, button, data_file_name, df_numeric, corr_matrix,
                   extreme, shown, rendered>>

Next ==
    \/ FindDataFile
    \/ LoadData
    \/ CheckData
    \/ ShowHeatmap
    \/ PositiveButton
    \/ NegativeButton
    \/ Rerun
    \/ RemoveFile

Spec == Init /\ [][Next]_vars

\* ------------------------------------------ the loader on its own inputs
\* One call of load_and_preprocess_data(file_path) in a fresh process, for
\* any path and any content of the directory.
InitLoad ==
    /\ \/ /\ data_file_name = "a.xlsx"
          /\ Directory(fs, PclassCells, AgeCells, SexCells, MaxRows, {AbsentFile})
       \/ /\ data_file_name = "b.xlsx"
          /\ fs = [p \in Paths |-> AbsentFile]
    /\ cache = [p \in Paths |-> Uncached]
    /\ reads = [p \in Paths |-> 0]
    /\ button = "none"
    /\ pc = "found"
    /\ df_numeric = None
    /\ corr_matrix = NoMatrix
    /\ extreme = NoneFound
    /\ shown = <<>>
    /\ rendered = {}

NextLoad == LoadData

SpecLoad == InitLoad /\ [][NextLoad]_vars

\* The same call on sheets with a longer gender column.
InitGender ==
    /\ data_file_name = "a.xlsx"
    /\ Directory(fs, {Num(1), Str("x")}, {}, GenderCells, MaxGenderRows, {AbsentFile})
    /\ cache = [p \in Paths |-> Uncached]
    /\ reads = [p \in Paths |-> 0]
    /\ button = "none"
    /\ pc = "found"
    /\ df_numeric = None
    /\ corr_matrix = NoMatrix
    /\ extreme = NoneFound
    /\ shown = <<>>
    /\ rendered = {}

SpecGender == InitGender /\ [][NextLoad]_vars

\* ---------------------------------------- the selector on its own inputs
\* Coefficients of the matrices the selector is called on: -1, -1/2, 0,
\* 1/2 (written 1/4 and 4/16) and 1.
Coefficients == {Coef(-1, 1), Coef(-1, 4), Coef(0, 1), Coef(1, 4), Coef(4, 16), Coef(1, 1)}

SelectorCols == <<"pclass", "age", "fare", "sex_numeric", "sibsp", "parch">>

\* The symmetric matrices on the first n names in which the columns of
\* `flat` have no variance (their entries are NaN) and the others have a
\* diagonal of 1.
SymmetricMatrix(n, flat, upper) ==
    LET cols == SubSeq(SelectorCols, 1, n)
        Pos(a) == CHOOSE i \in 1..n : cols[i] = a
    IN  Matrix(cols,
               [a \in AnalysisCols, b \in AnalysisCols |->
                  IF ~InSeq(a, cols) \/ ~InSeq(b, cols) THEN CoefNaN
                  ELSE IF Pos(a) \in flat \/ Pos(b) \in flat THEN CoefNaN
                  ELSE IF a = b THEN Coef(1, 1)
                  ELSE IF Pos(a) < Pos(b) THEN upper[Pos(a), Pos(b)]
                  ELSE upper[Pos(b), Pos(a)]])

UpperPairs(n) == {ij \in (1..n) \X (1..n) : ij[1] < ij[2]}

\* A run that has drawn the heatmap of some matrix, started by the click of
\* either button.
InitSel ==
    /\ \E n \in 1..MaxVars : \E flat \in SUBSET (1..n) :
         \E upper \in [UpperPairs(n) -> Coefficients] :
           /\ \A ij \in UpperPairs(n) :
                (ij[1] \in flat \/ ij[2] \in flat) => upper[ij] = Coef(0, 1)
           /\ corr_matrix = SymmetricMatrix(n, flat, upper)
    /\ button \in {"positive", "negative"}
    /\ pc = "heat"
    /\ fs = [p \in Paths |-> AbsentFile]
    /\ cache = [p \in Paths |-> Uncached]
    /\ reads = [p \in Paths |-> 0]
    /\ data_file_name = "a.xlsx"
    /\ df_numeric = None
    /\ extreme = NoneFound
    /\ shown = <<>>
    /\ rendered = {"preview", "heatmap"}

NextSel == PositiveButton \/ NegativeButton

SpecSel == InitSel /\ [][NextSel]_vars

\* ================================================================= claims
\* What the path passed to load_and_preprocess_data holds.
Input == fs[data_file_name]

\* The call of line 151 has returned a table.
LoadedFrame == pc = "loaded" /\ df_numeric.kind = "frame"

HasSexNumeric == LoadedFrame /\ InSeq("sex_numeric", df_numeric.columns)

SexSource == Input.cols["Sex"].cells

SexText(i) == Lower(AsStr(SexSource[i]))

Females == Cardinality({i \in 1..Input.nrows : SexText(i) = "female"})
Males == Cardinality({i \in 1..Input.nrows : SexText(i) = "male"})

Shown(level, code) == \E i \in DOMAIN shown : shown[i].level = level /\ shown[i].code = code

\* C1, as stated: in the table returned for a sheet with a gender column,
\* every value of sex_numeric is exactly 0 or 1.
C1_GenderIndicatorIsBinary ==
    HasSexNumeric =>
      \A i \in 1..df_numeric.nrows : df_numeric.data["sex_numeric"][i] \in {Num(0), Num(1)}

\* C2, as stated: the indicator of a row is 1 when its gender value is the
\* literal 'female' (read, as the code does, in lower case) and 0 for any
\* other value.
C2_OtherValuesAreZero ==
    HasSexNumeric =>
      \A i \in 1..df_numeric.nrows :
        df_numeric.data["sex_numeric"][i] =
          (IF SexText(i) = "female" THEN Num(1) ELSE Num(0))

\* C2, amended: the indicator of a row is 1 when its gender value, as text
\* in lower case, is 'female' and 0 when it is 'male'; a row with any other
\* value gets the median of the rows that are 'female' or 'male': 1 when
\* these are mostly female, 0 when mostly male, 1/2 when as many of each;
\* and the column is dropped when no row is 'female' or 'male'.
C2_FemaleOneMaleZeroOthersMedian ==
    (pc = "loaded" /\ Input.kind = "table" /\ Input.cols["Sex"].present) =>
      /\ df_numeric.kind = "frame"
      /\ InSeq("sex_numeric", df_numeric.columns) <=> (Females + Males > 0)
      /\ InSeq("sex_numeric", df_numeric.columns) =>
           \A i \in 1..df_numeric.nrows :
             df_numeric.data["sex_numeric"][i] =
               (CASE SexText(i) = "female" -> Num(1)
                  [] SexText(i) = "male" -> Num(0)
                  [] OTHER -> IF Females > Males THEN Num(1)
                              ELSE IF Females < Males THEN Num(0)
                              ELSE Quarter(2))

\* A row that is neither 'female' nor 'male' has got the indicator 1.
C2_Witness ==
    /\ HasSexNumeric
    /\ \E i \in 1..df_numeric.nrows :
         /\ SexSource[i] = Str("x")
         /\ df_numeric.data["sex_numeric"][i] = Num(1)

\* The values of a column of the frame before imputation: the mapped
\* gender values, or the cells of the sheet coerced to numbers.
SourceNumeric(c) ==
    IF c = "sex_numeric" THEN SexMapped(SexSource)
    ELSE [i \in 1..Input.nrows |-> ToNumeric(DfColumn(Input, c)[i])]

\* C3: in every retained column of the returned table no entry is missing:
\* an entry that was absent or unparseable in the source holds the median
\* of the column's other entries, and every other entry holds its number.
C3_NoMissingAfterImputation ==
    LoadedFrame =>
      \A j \in DOMAIN df_numeric.columns :
        LET c == df_numeric.columns[j]
            source == SourceNumeric(c)
        IN  /\ Len(df_numeric.data[c]) = df_numeric.nrows
            /\ \A i \in 1..df_numeric.nrows :
                 /\ ~IsNa(df_numeric.data[c][i])
                 /\ df_numeric.data[c][i] =
                      (IF IsNa(source[i]) THEN Median(source) ELSE source[i])

\* A retained column that had a missing or unparseable entry.
C3_Witness ==
    /\ LoadedFrame
    /\ \E j \in DOMAIN df_numeric.columns, i \in 1..df_numeric.nrows :
         /\ df_numeric.columns[j] # "sex_numeric"
         /\ IsNa(SourceNumeric(df_numeric.columns[j])[i])

CandidateHeaders == {h \in Headers(Input) : InSeq(NormalizeName[h], STANDARD_COLS)}

AllNonNumeric(h) ==
    \A i \in 1..Input.nrows : IsNa(ToNumeric(Input.cols[h].cells[i]))

\* C4: a candidate column present in the source is excluded from the
\* returned table exactly when all of its values are non-numeric, also when
\* several candidate columns are; every other one is retained.
C4_DroppedIffAllNonNumeric ==
    (pc = "loaded" /\ Input.kind = "table" /\ CandidateHeaders # {}) =>
      /\ df_numeric.kind = "frame"
      /\ \A h \in CandidateHeaders :
           ~InSeq(NormalizeName[h], df_numeric.columns) <=> AllNonNumeric(h)

\* Two candidate columns next to each other are both all non-numeric.
C4_Witness ==
    /\ LoadedFrame
    /\ Input.nrows > 0
    /\ Cardinality(CandidateHeaders) > 1
    /\ \A h \in CandidateHeaders : AllNonNumeric(h)

\* C5: the call with a path at which nothing exists returns None and shows
\* the error, and no exception leaves the function.
C5_MissingFileReturnsNone ==
    (pc \in {"loaded", "fault"} /\ Input.kind = "absent") =>
      /\ pc = "loaded"
      /\ df_numeric = None
      /\ Shown("error", "file_not_found")

C5_Witness == pc = "loaded" /\ Input.kind = "absent" /\ reads[data_file_name] = 1

\* No column of the sheet is a candidate or gender column.
NoAnalysisColumn == CandidateHeaders = {} /\ ~Input.cols["Sex"].present

\* Every candidate or gender column of the sheet is without a usable value.
ZeroUsableColumns ==
    /\ \A h \in CandidateHeaders : AllNonNumeric(h)
    /\ Input.cols["Sex"].present => Females + Males = 0

\* C6, as stated: the call returns None whenever zero usable numeric columns
\* remain, also when every column present is dropped as non-numeric (here
\* for the sheets that have rows).
C6_ZeroColumnsReturnsNone ==
    (pc = "loaded" /\ Input.kind = "table" /\ Input.nrows > 0 /\ ZeroUsableColumns) =>
      df_numeric = None

\* C6, amended: when zero usable numeric columns remain, the call returns
\* None and shows an error if the sheet has no candidate and no gender
\* column; if every such column present is dropped during normalisation, it
\* returns a table with no columns (which is empty) and shows a warning.
C6_ZeroColumnsNoneOrEmptyTable ==
    (pc = "loaded" /\ Input.kind = "table" /\ ZeroUsableColumns) =>
      IF NoAnalysisColumn
      THEN df_numeric = None /\ Shown("error", "no_numeric_columns")
      ELSE /\ df_numeric.kind = "frame"
           /\ df_numeric.columns = <<>>
           /\ IsEmpty(df_numeric)
           /\ Shown("warning", "all_non_numeric")

\* Every column present has rows and is dropped.
C6_Witness ==
    /\ pc = "loaded"
    /\ Input.kind = "table"
    /\ Input.nrows > 0
    /\ ZeroUsableColumns
    /\ Cardinality(CandidateHeaders) > 1
    /\ Input.cols["Sex"].present

\* The run has called get_extreme_correlations in this mode.
Asked(is_positive) ==
    IF is_positive THEN button = "positive" /\ pc \in {"pos", "done"}
    ELSE button = "negative" /\ pc = "done"

Found == (Asked(TRUE) \/ Asked(FALSE)) /\ extreme # NoneFound

\* C7: in both modes a pair that get_extreme_correlations returns is never
\* a self-pair.
C7_NeverSelfPair ==
    Found =>
      /\ extreme.var1 # extreme.var2
      /\ InSeq(extreme.var1, corr_matrix.cols)
      /\ InSeq(extreme.var2, corr_matrix.cols)

\* A pair is returned from a matrix whose diagonal beats it.
C7_Witness ==
    /\ Asked(TRUE)
    /\ extreme # NoneFound
    /\ Less(extreme.value, corr_matrix.val[extreme.var1, extreme.var1])

\* The off-diagonal entries that hold a value.
OffDiagonal ==
    {ab \in AnalysisCols \X AnalysisCols :
       /\ InSeq(ab[1], corr_matrix.cols) /\ InSeq(ab[2], corr_matrix.cols)
       /\ ab[1] # ab[2]
       /\ ~corr_matrix.val[ab].nan}

\* C8: in positive mode the selector returns a pair whose value is its
\* matrix entry, the greatest off-diagonal value and above zero, and
\* returns none exactly when every off-diagonal value is <= 0; in negative
\* mode the same with the smallest value, below zero, and >= 0.
C8_ExtremeValue ==
    /\ Asked(TRUE) =>
         IF \A ab \in OffDiagonal : corr_matrix.val[ab].num <= 0
         THEN extreme = NoneFound
         ELSE /\ <<extreme.var1, extreme.var2>> \in OffDiagonal
              /\ extreme.value = corr_matrix.val[extreme.var2, extreme.var1]
              /\ extreme.value.num > 0
              /\ \A ab \in OffDiagonal : ~Less(extreme.value, corr_matrix.val[ab])
    /\ Asked(FALSE) =>
         IF \A ab \in OffDiagonal : corr_matrix.val[ab].num >= 0
         THEN extreme = NoneFound
         ELSE /\ <<extreme.var1, extreme.var2>> \in OffDiagonal
              /\ extreme.value = corr_matrix.val[extreme.var2, extreme.var1]
              /\ extreme.value.num < 0
              /\ \A ab \in OffDiagonal : ~Less(corr_matrix.val[ab], extreme.value)

\* The negative mode returns a pair from a matrix that also has a positive
\* entry and a negative entry that is not the smallest.
C8_Witness ==
    /\ Asked(FALSE)
    /\ extreme # NoneFound
    /\ \E ab \in OffDiagonal : corr_matrix.val[ab].num > 0
    /\ \E ab \in OffDiagonal :
         Less(extreme.value, corr_matrix.val[ab]) /\ corr_matrix.val[ab].num < 0

\* C9: the result is cached by path: a call with a path loaded before
\* returns the stored result without reading the source, a stored result is
\* never replaced, a call with a path not yet loaded reads the source, and
\* so no path is read more than once.
C9_CachedByPath ==
    /\ [](\A p \in Paths : reads[p] <= 1 /\ (cache[p].hit <=> reads[p] = 1))
    /\ [][/\ \A p \in Paths : cache[p].hit => cache'[p] = cache[p]
          /\ (pc = "found" /\ pc' # "found") =>
               IF cache[data_file_name].hit
               THEN reads' = reads /\ df_numeric' = cache[data_file_name].result
               ELSE /\ reads'[data_file_name] = reads[data_file_name] + 1
                    /\ cache'[data_file_name].hit
                    /\ cache'[data_file_name].result = df_numeric']_vars

\* A later call returns the table read earlier although the file is gone.
C9_Witness ==
    /\ pc = "loaded"
    /\ df_numeric.kind = "frame"
    /\ fs[data_file_name].kind = "absent"
    /\ reads[data_file_name] = 1

\* The run is past line 151.
PastLoad == data_file_name # "" /\ pc \in {"loaded", "stopped", "ok", "heat", "pos", "done"}

ZeroColumns == df_numeric = None \/ Len(df_numeric.columns) = 0

NothingComputed == rendered = {} /\ corr_matrix = NoMatrix /\ extreme = NoneFound

\* C10: in a run in which the source file is not found or zero usable
\* numeric columns remain, the condition is reported and nothing further is
\* computed or drawn; a run in which only some column is dropped as
\* non-numeric does not halt: it goes on to the correlation matrix and the
\* heatmap of the remaining columns.
C10_HaltsOrContinues ==
    /\ (pc = "stopped" /\ data_file_name = "") =>
         Shown("error", "no_xlsx_file") /\ NothingComputed
    /\ (PastLoad /\ ZeroColumns) =>
         /\ pc \in {"loaded", "stopped"}
         /\ NothingComputed
         /\ IF df_numeric = None
            THEN \/ Shown("error", "file_not_found")
                 \/ Shown("error", "load_failed")
                 \/ Shown("error", "no_numeric_columns")
            ELSE Shown("warning", "all_non_numeric")
    /\ (PastLoad /\ ~ZeroColumns) =>
         /\ pc # "stopped"
         /\ \A i \in DOMAIN shown :
              shown[i].code = "all_non_numeric" => ~InSeq(shown[i].col, df_numeric.columns)
         /\ pc \in {"heat", "pos", "done"} =>
              /\ "heatmap" \in rendered
              /\ corr_matrix.cols = df_numeric.columns

\* A run halted because every column present was dropped.
C10_Witness ==
    /\ pc = "stopped"
    /\ df_numeric.kind = "frame"
    /\ df_numeric.nrows > 0
    /\ Shown("warning", "all_non_numeric")
====
